---- MODULE Spec2Model ----
(***************************************************************************)
(* The mobile navigation presenter (MobileNavLinks.vue) of the site theme. *)
(*                                                                         *)
(* A JavaScript object is a function from its own property names to their  *)
(* values, so that "the property is absent" is "the name is not in the     *)
(* DOMAIN".  Objects live in a heap and are named by references, because    *)
(* toggleDropdown compares items by identity (navItem !== item).           *)
(***************************************************************************)
EXTENDS Naturals, Sequences, FiniteSets, TLC

VARIABLES
    heap,         \* reference -> object (the nav items of the configuration and of the component)
    themeConfig,  \* this.$site.themeConfig, its nav being a list of references
    navItems,     \* data().navItems, a list of references
    phase,        \* "data" after data(), "created" after created(), "error" if created() threw
    run,          \* log of the latest calls of toggleDropdown with one and the same argument
    view,         \* what the template has rendered for navItems
    life,         \* how many times the view was mounted, and whether an item was open at the last unmount
    second,       \* a second instance of the component: its phase, its navItems and its view
    page,         \* the path of the current page and the sidebar mapping entry resolved for it
    handler,      \* the position of a running call of toggleDropdown: its argument and its loop index
    mobile        \* the media query (max-width: $MQMobile) matches the display width

vars == <<heap, themeConfig, navItems, phase, run, view, life, second, page, handler, mobile>>

----------------------------------------------------------------------------
(* Bounds *)

\* longest configured nav list
MaxNav == 2

\* the log counts the consecutive calls with one argument up to this number
MaxRun == 4

\* the view is mounted at most this many times
MaxMounts == 2

\* a page path has at most this many segments
MaxSegments == 2

----------------------------------------------------------------------------
(* JavaScript values *)

\* obj.k is truthy, for a property that holds a boolean when it is there
Truthy(obj, k) ==
    /\ k \in DOMAIN obj
    /\ obj[k] = TRUE

\* obj.k is truthy, for a property that holds a string when it is there
TruthyString(obj, k) ==
    /\ k \in DOMAIN obj
    /\ obj[k] # ""

\* obj.k = v
SetProp(obj, k, v) ==
    [p \in DOMAIN obj \cup {k} |-> IF p = k THEN v ELSE obj[p]]

\* the child entries the examples of the configuration use
SubIntro == [text |-> "Intro", link |-> "/introduction/"]

SubUseCases == [text |-> "Use cases", link |-> "/introduction/use_cases"]

\* the shapes a configured nav item takes: a group, a group that carries an
\* open flag, a leaf, an item with a link and children, an item with neither
NavShapes ==
    { [text |-> "Docs", items |-> <<SubIntro, SubUseCases>>],
      [text |-> "More", items |-> <<SubUseCases>>, open |-> TRUE],
      [text |-> "GitHub", link |-> "https://github.com/cashubtc/cdk", rel |-> "noopener noreferrer"],
      [text |-> "Tutorials", link |-> "/tutorials/getting-started", items |-> <<SubIntro>>],
      [text |-> "Bare"] }

\* the nav lists of at most MaxNav items
NavLists == UNION { [1..n -> NavShapes] : n \in 0..MaxNav }

----------------------------------------------------------------------------
(* The site configuration: config.js *)

\* A path is the sequence of its slashes and segments, '/tutorials/getting-started'
\* being <<"/", "tutorials", "/", "getting-started">>.  Every key of the sidebar
\* mapping ends with a slash, so a key is a prefix of a path as a string iff
\* it is one as such a sequence.
PathOf(segments, slash) ==
    [i \in 1..(2 * Len(segments) + (IF slash THEN 1 ELSE 0)) |->
        IF i % 2 = 1 THEN "/" ELSE segments[i \div 2]]

Segments == {"tutorials", "blog", "_blog", "introduction", "getting-started"}

\* the page paths of at most MaxSegments segments
PagePaths ==
    { PathOf(sg, sl) : sg \in UNION { [1..n -> Segments] : n \in 0..MaxSegments },
                       sl \in BOOLEAN } \ {<<>>}

\* a string child, a [path, label] pair, a section
Page(path) == [path |-> path]

Labelled(path, label) == [path |-> path, label |-> label]

\* docsSidebar listing '/examples' twice
DocsSidebarTwice ==
    << [title |-> "Documentation", collapsable |-> FALSE,
        children |-> << [title |-> "Introduction", path |-> "/introduction/", collapsable |-> TRUE,
                         children |-> << Labelled("/introduction/use_cases", "Use Cases") >>],
                        Page("/examples"),
                        Page("/examples") >>],
       [title |-> "API Reference", collapsable |-> FALSE,
        children |-> << Labelled("https://docs.rs/cdk", "Rust") >>] >>

DocsSidebar ==
    << [title |-> "Documentation", collapsable |-> FALSE,
        children |-> << [title |-> "Introduction", path |-> "/introduction/", collapsable |-> TRUE,
                         children |-> << Labelled("/introduction/use_cases", "Use Cases") >>],
                        Page("/examples") >>],
       [title |-> "API Reference", collapsable |-> FALSE,
        children |-> << Labelled("https://docs.rs/cdk", "Rust") >>] >>

\* tutorialSidebar and blogSidebar, in the two versions of config.js
TutorialSidebar(version) ==
    << [title |-> "Tutorials", collapsable |-> FALSE,
        children |-> IF version = 1
                     THEN << Page("/tutorials/getting-started"), Page("/tutorials/single-mint-wallet") >>
                     ELSE << Page("/tutorials/getting-started") >>] >>

BlogSidebar(version) ==
    IF version = 1 THEN <<>>
    ELSE << [title |-> "Blog", collapsable |-> FALSE,
             children |-> << Labelled("/blog/", "Articles"),
                             Labelled("/blog/tags/", "Tags"),
                             Labelled("/blog/author/", "Authors") >>] >>

\* themeConfig.sidebar without its '/tutorials/' entry
SidebarNoTutorials(version) ==
    << [base |-> PathOf(<<"_blog">>, TRUE), tree |-> BlogSidebar(version)],
       [base |-> PathOf(<<"blog">>, TRUE),  tree |-> BlogSidebar(version)],
       [base |-> PathOf(<<>>, TRUE),        tree |-> DocsSidebar] >>

\* themeConfig.sidebar without its catch-all '/' entry
SidebarNoRoot(version) ==
    << [base |-> PathOf(<<"_blog">>, TRUE),     tree |-> BlogSidebar(version)],
       [base |-> PathOf(<<"blog">>, TRUE),      tree |-> BlogSidebar(version)],
       [base |-> PathOf(<<"tutorials">>, TRUE), tree |-> TutorialSidebar(version)] >>

\* themeConfig.sidebar with its catch-all '/' entry declared first
SidebarRootFirst(version) ==
    << [base |-> PathOf(<<>>, TRUE),            tree |-> DocsSidebar],
       [base |-> PathOf(<<"_blog">>, TRUE),     tree |-> BlogSidebar(version)],
       [base |-> PathOf(<<"blog">>, TRUE),      tree |-> BlogSidebar(version)],
       [base |-> PathOf(<<"tutorials">>, TRUE), tree |-> TutorialSidebar(version)] >>

\* themeConfig.sidebar: the entries in the order of their declaration
Sidebar(version) ==
    << [base |-> PathOf(<<"_blog">>, TRUE),     tree |-> BlogSidebar(version)],
       [base |-> PathOf(<<"blog">>, TRUE),      tree |-> BlogSidebar(version)],
       [base |-> PathOf(<<"tutorials">>, TRUE), tree |-> TutorialSidebar(version)],
       [base |-> PathOf(<<>>, TRUE),            tree |-> DocsSidebar] >>

\* themeConfig.nav whose Docs item is a group: { text: 'Docs', items: [...] }
ShippedNavWithGroup(version) ==
    LET docs      == [text |-> "Docs", items |-> <<SubIntro, SubUseCases>>]
        tutorials == [text |-> "Tutorials", link |-> "/tutorials/getting-started"]
        blog      == [text |-> "Blog", link |-> "/blog/"]
        matrix    == [text |-> "Matrix", link |-> "https://matrix.to/#/#cdk:matrix.cashu.space",
                      rel |-> "noopener noreferrer"]
        github    == [text |-> "GitHub", link |-> "https://github.com/cashubtc/cdk",
                      rel |-> "noopener noreferrer"]
    IN  IF version = 1 THEN <<docs, tutorials, matrix, github>>
        ELSE <<docs, tutorials, blog, matrix, github>>

\* themeConfig.nav, in the two versions of config.js
ShippedNav(version) ==
    LET docs      == [text |-> "Docs", link |-> "/introduction/"]
        tutorials == [text |-> "Tutorials", link |-> "/tutorials/getting-started"]
        blog      == [text |-> "Blog", link |-> "/blog/"]
        matrix    == [text |-> "Matrix", link |-> "https://matrix.to/#/#cdk:matrix.cashu.space",
                      rel |-> "noopener noreferrer"]
        github    == [text |-> "GitHub", link |-> "https://github.com/cashubtc/cdk",
                      rel |-> "noopener noreferrer"]
    IN  IF version = 1 THEN <<docs, tutorials, matrix, github>>
        ELSE <<docs, tutorials, blog, matrix, github>>

----------------------------------------------------------------------------
(* The sidebar mapping lookup *)

\* key is a prefix of path
IsPrefix(key, path) ==
    /\ Len(key) <= Len(path)
    /\ \A i \in 1..Len(key) : key[i] = path[i]

\* the entries whose key is a prefix of the path
Matching(sidebar, path) == {i \in 1..Len(sidebar) : IsPrefix(sidebar[i].base, path)}

\* among them, those with the longest key
LongestMatching(sidebar, path) ==
    {i \in Matching(sidebar, path) :
        \A j \in Matching(sidebar, path) : Len(sidebar[j].base) <= Len(sidebar[i].base)}

\* the entry the lookup selects for a path: the key of a longest match, if there is a match
Resolve(sidebar, path) ==
    IF LongestMatching(sidebar, path) = {}
    THEN [found |-> FALSE, base |-> <<>>]
    ELSE [found |-> TRUE,
          base  |-> sidebar[CHOOSE i \in LongestMatching(sidebar, path) : TRUE].base]

\* the lookup that takes the first declared entry whose key is a prefix of the path
ResolveFirst(sidebar, path) ==
    IF Matching(sidebar, path) = {}
    THEN [found |-> FALSE, base |-> <<>>]
    ELSE [found |-> TRUE,
          base  |-> sidebar[CHOOSE i \in Matching(sidebar, path) :
                               \A j \in Matching(sidebar, path) : i <= j].base]

----------------------------------------------------------------------------
(* getNavItems *)

\* const { nav } = this.$site.themeConfig
NavOf(cfg) ==
    IF "nav" \in DOMAIN cfg THEN [defined |-> TRUE, list |-> cfg.nav]
    ELSE [defined |-> FALSE, list |-> <<>>]

\* (nav || []) written without its default
OrEmptyNoDefault(v) == v

\* (nav || [])
OrEmpty(v) ==
    IF v.defined THEN v ELSE [defined |-> TRUE, list |-> <<>>]

\* the copy that lets the item's own open flag win: { open: false, ...item, items }
CopyItemOpenFirst(item) ==
    [p \in DOMAIN item \cup {"open", "items"} |->
        IF p = "items" THEN (IF "items" \in DOMAIN item THEN item.items ELSE <<>>)
        ELSE IF p \in DOMAIN item THEN item[p]
        ELSE FALSE]

\* the copy that drops the child list: { ...item, open: false, items: [] }
CopyItemNoItems(item) ==
    [p \in DOMAIN item \cup {"open", "items"} |->
        IF p = "open" THEN FALSE
        ELSE IF p = "items" THEN <<>>
        ELSE item[p]]

\* the copy that takes the text alone: { text: item.text, open: false, items: item.items || [] }
CopyItemTextOnly(item) ==
    [text  |-> item.text,
     open  |-> FALSE,
     items |-> IF "items" \in DOMAIN item THEN item.items ELSE <<>>]

\* { ...item, open: false, items: item.items || [] }
CopyItem(item) ==
    [p \in DOMAIN item \cup {"open", "items"} |->
        IF p = "open" THEN FALSE
        ELSE IF p = "items" THEN (IF "items" \in DOMAIN item THEN item.items ELSE <<>>)
        ELSE item[p]]

\* the references of the objects that map() creates for a list of n items
NewRefs(h, n) ==
    LET base == Cardinality(DOMAIN h) IN [i \in 1..n |-> base + i]

\* getNavItems that writes open and items onto the configured items and returns them:
\* map(item => { item.open = item.open || false; item.items = item.items || []; return item })
getNavItemsInPlace(h, cfg) ==
    LET nav == OrEmpty(NavOf(cfg))
        n   == Len(nav.list)
    IN  [threw |-> FALSE,
         list  |-> nav.list,
         heap  |-> [r \in DOMAIN h |->
                       IF \E i \in 1..n : nav.list[i] = r
                       THEN SetProp(SetProp(h[r], "open", Truthy(h[r], "open")),
                                    "items", IF "items" \in DOMAIN h[r] THEN h[r].items ELSE <<>>)
                       ELSE h[r]]]

\* getNavItems(): whether it threw (map of undefined), the list it returns, the heap after it
getNavItems(h, cfg) ==
    LET nav  == OrEmpty(NavOf(cfg))
        n    == Len(nav.list)
        refs == NewRefs(h, n)
    IN  IF ~nav.defined
        THEN [threw |-> TRUE, list |-> <<>>, heap |-> h]
        ELSE [threw |-> FALSE,
              list  |-> refs,
              heap  |-> [r \in DOMAIN h \cup {refs[i] : i \in 1..n} |->
                            IF r \in DOMAIN h THEN h[r]
                            ELSE CopyItem(h[nav.list[r - Cardinality(DOMAIN h)]])]]

----------------------------------------------------------------------------
(* toggleDropdown *)

\* toggleDropdown that leaves the other dropdowns alone
toggleDropdownNoClose(h, items, item) ==
    [h EXCEPT ![item] = SetProp(h[item], "open", ~Truthy(h[item], "open"))]

\* toggleDropdown that opens the clicked dropdown instead of flipping it
toggleDropdownAlwaysOpen(h, items, item) ==
    LET h1 == [h EXCEPT ![item] = SetProp(h[item], "open", TRUE)]
    IN  [r \in DOMAIN h1 |->
            IF (\E i \in 1..Len(items) : items[i] = r) /\ r # item
            THEN SetProp(h1[r], "open", FALSE)
            ELSE h1[r]]

\* toggleDropdown whose loop flips the other dropdowns instead of closing them
toggleDropdownFlipOthers(h, items, item) ==
    LET h1 == [h EXCEPT ![item] = SetProp(h[item], "open", ~Truthy(h[item], "open"))]
    IN  [r \in DOMAIN h1 |->
            IF (\E i \in 1..Len(items) : items[i] = r) /\ r # item
            THEN SetProp(h1[r], "open", ~Truthy(h1[r], "open"))
            ELSE h1[r]]

\* the key the template gives an item: item.link || item.text
KeyOf(obj) == IF TruthyString(obj, "link") THEN obj.link ELSE obj.text

\* toggleDropdown that tells the items apart by their key instead of their identity
toggleDropdownByKey(h, items, item) ==
    LET h1 == [h EXCEPT ![item] = SetProp(h[item], "open", ~Truthy(h[item], "open"))]
    IN  [r \in DOMAIN h1 |->
            IF (\E i \in 1..Len(items) : items[i] = r) /\ KeyOf(h1[r]) # KeyOf(h1[item])
            THEN SetProp(h1[r], "open", FALSE)
            ELSE h1[r]]

\* toggleDropdown whose loop also empties the child list of the dropdowns it closes
toggleDropdownClearsItems(h, items, item) ==
    LET h1 == [h EXCEPT ![item] = SetProp(h[item], "open", ~Truthy(h[item], "open"))]
    IN  [r \in DOMAIN h1 |->
            IF (\E i \in 1..Len(items) : items[i] = r) /\ r # item
            THEN SetProp(SetProp(h1[r], "open", FALSE), "items", <<>>)
            ELSE h1[r]]

\* toggleDropdown(item): the heap after the call
toggleDropdown(h, items, item) ==
    LET h1 == [h EXCEPT ![item] = SetProp(h[item], "open", ~Truthy(h[item], "open"))]
    IN  [r \in DOMAIN h1 |->
            IF (\E i \in 1..Len(items) : items[i] = r) /\ r # item
            THEN SetProp(h1[r], "open", FALSE)
            ELSE h1[r]]

\* the statements of toggleDropdown, one by one
\* item.open = !item.open
FlipTarget(h, item) ==
    [h EXCEPT ![item] = SetProp(h[item], "open", ~Truthy(h[item], "open"))]

\* the body of the forEach without its assignment
CloseOtherNever(h, navItem, item) == h

\* the body of the forEach: if (navItem !== item) { navItem.open = false }
CloseOther(h, navItem, item) ==
    IF navItem # item
    THEN [h EXCEPT ![navItem] = SetProp(h[navItem], "open", FALSE)]
    ELSE h

\* the index-based reducer over the open flags of a list: every index is
\* mapped to closed except the target, which is flipped
toggle(opens, targetIndex) ==
    [i \in 1..Len(opens) |-> IF i = targetIndex THEN ~opens[i] ELSE FALSE]

----------------------------------------------------------------------------
(* The style rules *)

\* .mobile-nav-links: display none, and display block under
\* @media (max-width: $MQMobile); m says whether the media query matches
MobileNavLinksDisplay(m) == IF m THEN "block" ELSE "none"

\* .sidebar .nav-links, the class of what <NavLinks /> renders: display none,
\* and display block under @media (max-width: $MQMobile)
NavLinksDisplay(m) == IF m THEN "block" ELSE "none"

----------------------------------------------------------------------------
(* The template *)

\* the template that gives every item a dropdown header
RendersDropdownAlways(obj) == TRUE

\* v-if="item.link" renders a NavLink, v-else the dropdown header with its button
RendersDropdown(obj) == ~TruthyString(obj, "link")

\* the dropdown whose arrow never gets the class down
RenderDropdownArrowFixed(obj) ==
    [tag   |-> "dropdown",
     title |-> obj.text,
     down  |-> FALSE,
     ul    |-> Truthy(obj, "open"),
     li    |-> IF Truthy(obj, "open") THEN obj.items ELSE <<>>]

\* the dropdown-wrapper: the button with its title and arrow (:class="{ down: item.open }"),
\* and under v-if="item.open" the list with one entry per child
RenderDropdown(obj) ==
    [tag   |-> "dropdown",
     title |-> obj.text,
     down  |-> Truthy(obj, "open"),
     ul    |-> Truthy(obj, "open"),
     li    |-> IF Truthy(obj, "open") THEN obj.items ELSE <<>>]

\* one nav-item of the v-for
RenderItem(obj) ==
    IF RendersDropdown(obj) THEN RenderDropdown(obj)
    ELSE [tag |-> "NavLink", title |-> obj.text, link |-> obj.link]

\* the template, rendered for the list items in heap h
Render(h, items) == [i \in 1..Len(items) |-> RenderItem(h[items[i]])]

----------------------------------------------------------------------------
(* The log of calls *)

\* no item of the list is open
AllClosed(h, items) == \A i \in 1..Len(items) : ~Truthy(h[items[i]], "open")

NoRun == [item |-> 0, n |-> 0, allClosed |-> FALSE, pre |-> <<>>]

\* no call of toggleDropdown is running
Idle == [pc |-> "idle", item |-> 0, k |-> 0, start |-> <<>>]

\* the log after a call toggleDropdown(item) made in heap h
Logged(h, items, item) ==
    IF run.item = item
    THEN [item      |-> item,
          n         |-> IF run.n < MaxRun THEN run.n + 1 ELSE MaxRun,
          allClosed |-> run.allClosed,
          pre       |-> <<run.pre[Len(run.pre)], Truthy(h[item], "open")>>]
    ELSE [item      |-> item,
          n         |-> 1,
          allClosed |-> AllClosed(h, items),
          pre       |-> <<Truthy(h[item], "open")>>]

----------------------------------------------------------------------------
(* The component *)

Init ==
    /\ \E list \in NavLists :
          /\ heap = [r \in 1..Len(list) |-> list[r]]
          /\ \/ themeConfig = [repo    |-> "thesimplekid/cashudevkit.org",
                               sidebar |-> Sidebar(2),
                               nav     |-> [i \in 1..Len(list) |-> i]]
             \/ /\ list = <<>>
                /\ themeConfig = [repo    |-> "thesimplekid/cashudevkit.org",
                                  sidebar |-> Sidebar(2)]
    /\ navItems = <<>>
    /\ phase = "data"
    /\ run = NoRun
    /\ view = <<>>
    /\ life = [mounts |-> 1, openAtUnmount |-> FALSE]
    /\ second = [phase |-> "data", navItems |-> <<>>, view |-> <<>>]
    /\ page = [path |-> <<"/">>, resolved |-> Resolve(Sidebar(2), <<"/">>)]
    /\ handler = Idle
    /\ mobile = TRUE

\* the site as config.js declares it, in either of its two versions, on its home page
InitSite ==
    /\ \E version \in {1, 2} :
          /\ heap = [r \in 1..Len(ShippedNav(version)) |-> ShippedNav(version)[r]]
          /\ themeConfig = [repo    |-> "thesimplekid/cashudevkit.org",
                            sidebar |-> Sidebar(version),
                            nav     |-> [i \in 1..Len(ShippedNav(version)) |-> i]]
          /\ page = [path |-> <<"/">>, resolved |-> Resolve(Sidebar(version), <<"/">>)]
    /\ navItems = <<>>
    /\ phase = "data"
    /\ run = NoRun
    /\ view = <<>>
    /\ life = [mounts |-> 1, openAtUnmount |-> FALSE]
    /\ second = [phase |-> "data", navItems |-> <<>>, view |-> <<>>]
    /\ handler = Idle
    /\ mobile \in BOOLEAN

\* the reader goes to the page of path p, and the sidebar items are resolved for it
Navigate(p) ==
    /\ page' = [path |-> p, resolved |-> Resolve(themeConfig.sidebar, p)]
    /\ UNCHANGED <<heap, themeConfig, navItems, phase, run, view, life, second, handler, mobile>>

Navigates == \E p \in PagePaths : Navigate(p)

\* the second instance after the render that a change of the heap triggers
Rerendered(h) ==
    [second EXCEPT !.view = IF second.phase = "created" THEN Render(h, second.navItems) ELSE <<>>]

\* created(): this.navItems = this.getNavItems(), and the first render
Created ==
    /\ phase = "data"
    /\ LET res == getNavItems(heap, themeConfig)
       IN  IF res.threw
           THEN /\ phase' = "error"
                /\ UNCHANGED <<heap, navItems, view, second>>
           ELSE /\ phase' = "created"
                /\ heap' = res.heap
                /\ navItems' = res.list
                /\ view' = Render(res.heap, res.list)
                /\ second' = Rerendered(res.heap)
    /\ UNCHANGED <<themeConfig, run, life, page, handler, mobile>>

\* toggleDropdown that returns at once when the item is open: if (item.open) return
CallWhileClosed(item) ==
    /\ phase = "created"
    /\ ~Truthy(heap[item], "open")
    /\ heap' = toggleDropdown(heap, navItems, item)
    /\ run' = Logged(heap, navItems, item)
    /\ view' = Render(heap', navItems)
    /\ second' = Rerendered(heap')
    /\ UNCHANGED <<themeConfig, navItems, phase, life, page, handler, mobile>>

\* the call toggleDropdown(item) on a mounted component, and the render it triggers
Call(item) ==
    /\ phase = "created"
    /\ heap' = toggleDropdown(heap, navItems, item)
    /\ run' = Logged(heap, navItems, item)
    /\ view' = Render(heap', navItems)
    /\ second' = Rerendered(heap')
    /\ UNCHANGED <<themeConfig, navItems, phase, life, page, handler, mobile>>

\* @click="toggleDropdown(item)" on the button of the i-th item
Click(i) ==
    /\ i \in 1..Len(navItems)
    /\ RendersDropdown(heap[navItems[i]])
    /\ Call(navItems[i])

\* toggleDropdown called with the i-th item of navItems, rendered with a button or not
ToggleItem(i) ==
    /\ i \in 1..Len(navItems)
    /\ Call(navItems[i])

\* toggleDropdown called with an object that is not in navItems
ToggleForeign(r) ==
    /\ r \in DOMAIN heap
    /\ \A i \in 1..Len(navItems) : navItems[i] # r
    /\ Call(r)

\* the view is unmounted: the component and its navItems are discarded
Unmount ==
    /\ phase = "created"
    /\ phase' = "destroyed"
    /\ life' = [life EXCEPT !.openAtUnmount = ~AllClosed(heap, navItems)]
    /\ heap' = [r \in {x \in DOMAIN heap :
                          \/ \A i \in 1..Len(navItems) : navItems[i] # x
                          \/ \E i \in 1..Len(OrEmpty(NavOf(themeConfig)).list) :
                                 OrEmpty(NavOf(themeConfig)).list[i] = x} |-> heap[r]]
    /\ navItems' = <<>>
    /\ view' = <<>>
    /\ UNCHANGED <<themeConfig, run, second, page, handler, mobile>>

\* the view is mounted again: data() of a new component
Mount ==
    /\ phase = "destroyed"
    /\ life.mounts < MaxMounts
    /\ phase' = "data"
    /\ navItems' = <<>>
    /\ run' = NoRun
    /\ view' = <<>>
    /\ life' = [life EXCEPT !.mounts = life.mounts + 1]
    /\ UNCHANGED <<heap, themeConfig, second, page, handler, mobile>>

\* created() of the second instance, and its first render
Created2 ==
    /\ second.phase = "data"
    /\ LET res == getNavItems(heap, themeConfig)
       IN  IF res.threw
           THEN /\ second' = [second EXCEPT !.phase = "error"]
                /\ UNCHANGED <<heap, view>>
           ELSE /\ second' = [phase |-> "created", navItems |-> res.list,
                              view |-> Render(res.heap, res.list)]
                /\ heap' = res.heap
                /\ view' = IF phase = "created" THEN Render(res.heap, navItems) ELSE view
    /\ UNCHANGED <<themeConfig, navItems, phase, run, life, page, handler, mobile>>

\* @click="toggleDropdown(item)" on the button of the i-th item of the second instance
Click2(i) ==
    /\ second.phase = "created"
    /\ i \in 1..Len(second.navItems)
    /\ RendersDropdown(heap[second.navItems[i]])
    /\ heap' = toggleDropdown(heap, second.navItems, second.navItems[i])
    /\ second' = [second EXCEPT !.view = Render(heap', second.navItems)]
    /\ view' = IF phase = "created" THEN Render(heap', navItems) ELSE view
    /\ UNCHANGED <<themeConfig, navItems, phase, run, life, page, handler, mobile>>

\* the click on the button of the i-th item starts toggleDropdown(item), which
\* runs its first statement: item.open = !item.open
BeginToggle(i) ==
    /\ phase = "created"
    /\ handler.pc = "idle"
    /\ i \in 1..Len(navItems)
    /\ RendersDropdown(heap[navItems[i]])
    /\ heap' = FlipTarget(heap, navItems[i])
    /\ handler' = [pc |-> "loop", item |-> navItems[i], k |-> 1, start |-> heap]
    /\ run' = Logged(heap, navItems, navItems[i])
    /\ UNCHANGED <<themeConfig, navItems, phase, view, life, second, page, mobile>>

\* one iteration of this.navItems.forEach
LoopStep ==
    /\ handler.pc = "loop"
    /\ handler.k <= Len(navItems)
    /\ heap' = CloseOther(heap, navItems[handler.k], handler.item)
    /\ handler' = [handler EXCEPT !.k = handler.k + 1]
    /\ UNCHANGED <<themeConfig, navItems, phase, run, view, life, second, page, mobile>>

\* the forEach is over: toggleDropdown returns, and the view is rendered again
EndToggle ==
    /\ handler.pc = "loop"
    /\ handler.k > Len(navItems)
    /\ handler' = Idle
    /\ view' = Render(heap, navItems)
    /\ second' = Rerendered(heap)
    /\ UNCHANGED <<heap, themeConfig, navItems, phase, run, life, page, mobile>>

BeginToggles == \E i \in 1..Len(navItems) : BeginToggle(i)

\* the display gets wider or narrower than the breakpoint $MQMobile
Resize ==
    /\ mobile' = ~mobile
    /\ UNCHANGED <<heap, themeConfig, navItems, phase, run, view, life, second, page, handler>>

Clicks2 == \E i \in 1..Len(second.navItems) : Click2(i)

Clicks == \E i \in 1..Len(navItems) : Click(i)

ToggleItems == \E i \in 1..Len(navItems) : ToggleItem(i)

ToggleForeigns == \E r \in DOMAIN heap : ToggleForeign(r)

\* what a user can do with the rendered view
NextView == Created \/ Clicks

SpecView == Init /\ [][NextView]_vars

\* the view is mounted, used, unmounted and mounted again
NextMount == Created \/ Clicks \/ Unmount \/ Mount

SpecMount == Init /\ [][NextMount]_vars

\* two instances of the component on one page, clicked in any order
NextTwo == Created \/ Clicks \/ Created2 \/ Clicks2

SpecTwo == Init /\ [][NextTwo]_vars

\* the site of config.js: its pages are visited, its view is mounted and unmounted
NextSite == Created \/ Unmount \/ Mount \/ Navigates \/ Resize

SpecSite == InitSite /\ [][NextSite]_vars

\* toggleDropdown statement by statement: a click starts it, and nothing but
\* its own statements runs until it has returned
NextSteps == Created \/ BeginToggles \/ LoopStep \/ EndToggle

SpecSteps == Init /\ [][NextSteps]_vars

\* toggleDropdown reaches items of navItems only
NextState == Created \/ Clicks \/ ToggleItems

SpecState == Init /\ [][NextState]_vars

\* toggleDropdown is called with any object
Next == Created \/ Clicks \/ ToggleItems \/ ToggleForeigns

Spec == Init /\ [][Next]_vars

----------------------------------------------------------------------------
(* What the claims speak of *)

\* the positions of navItems
Items == 1..Len(navItems)

\* the i-th item of navItems, before and after a step
Item(i) == heap[navItems[i]]

ItemAfter(i) == heap'[navItems'[i]]

\* the i-th item of navItems is open, before and after a step
Open(i) == Truthy(Item(i), "open")

OpenAfter(i) == Truthy(ItemAfter(i), "open")

\* the i-th item is a leaf: its link is set
Leaf(i) == TruthyString(Item(i), "link")

\* the latest calls of toggleDropdown had the i-th item as their argument
RunOn(i) == run.n >= 1 /\ run.item = navItems[i]

\* the i-th configured nav item
Configured(i) == heap[themeConfig.nav[i]]

----------------------------------------------------------------------------
(* C1 *)

\* C1: in every state reached from created() by calls of toggleDropdown, at
\* most one item of navItems has open = true.
C1_AtMostOneOpen == Cardinality({i \in Items : Open(i)}) <= 1

\* item 1 was toggled while item 2 was open, and is now the open one
C1_Witness ==
    /\ Len(navItems) = 2
    /\ RunOn(1) /\ run.n = 1 /\ ~run.allClosed /\ run.pre = <<FALSE>>
    /\ Open(1) /\ ~Open(2)

----------------------------------------------------------------------------
(* C2 *)

\* C2: a call of toggleDropdown with the i-th item of navItems negates the
\* open flag of that item and leaves every other item with open = false.
C2_ToggleFlipsAndCloses ==
    [][\A i \in Items :
          ToggleItem(i) =>
             /\ OpenAfter(i) = ~Open(i)
             /\ \A j \in Items \ {i} : ItemAfter(j).open = FALSE]_vars

\* two items with the same text: the second was toggled while the first was open
C2_Witness ==
    /\ Len(navItems) = 2
    /\ Item(1).text = Item(2).text
    /\ RunOn(2) /\ run.n = 1 /\ ~run.allClosed /\ run.pre = <<FALSE>>
    /\ Open(2) /\ ~Open(1)

----------------------------------------------------------------------------
(* C3 *)

\* C3: after created() every item of navItems has open = false, also when the
\* configured item carries open = true.
C3_InitializeCloses ==
    [][Created => \A i \in 1..Len(navItems') : ItemAfter(i).open = FALSE]_vars

\* right after created(): a configured item carries open = true, its copy is closed
C3_Witness ==
    /\ phase = "created" /\ run = NoRun
    /\ \E i \in Items : Truthy(Configured(i), "open") /\ Item(i).open = FALSE

----------------------------------------------------------------------------
(* C4 *)

\* C4: a call of toggleDropdown with an object that is not in navItems leaves
\* the open flag of every item of navItems as it was.
C4_ForeignToggleIsNoOp ==
    [][\A r \in DOMAIN heap :
          ToggleForeign(r) => \A i \in Items : OpenAfter(i) = Open(i)]_vars

----------------------------------------------------------------------------
(* C5 *)

\* C5: after two calls of toggleDropdown in a row with the same item of
\* navItems, the open flag of that item is what it was before the first.
C5_ToggleTwiceRestores ==
    \A i \in Items : RunOn(i) /\ run.n >= 2 => Open(i) = run.pre[1]

\* an item that was open before the latest two calls, both made with it, is open again
C5_Witness ==
    \E i \in Items : RunOn(i) /\ run.n = 3 /\ run.pre = <<TRUE, FALSE>> /\ Open(i)

----------------------------------------------------------------------------
(* C6 *)

\* C6: after n calls in a row with the same item, the first made with all
\* items closed, that item is open iff n is odd and all the others are closed.
C6_OpenIffOdd ==
    \A i \in Items :
       RunOn(i) /\ run.allClosed /\ run.n < MaxRun =>
          /\ Open(i) = (run.n % 2 = 1)
          /\ \A j \in Items \ {i} : ~Open(j)

\* three calls in a row from the all-closed state leave the item open
C6_Witness ==
    \E i \in Items : RunOn(i) /\ run.allClosed /\ run.n = 3 /\ Open(i) /\ Len(navItems) = 2

----------------------------------------------------------------------------
(* C7 *)

\* C7: created() gives an item without an items list the empty list, and an
\* item with an items list exactly that list, in the order of the configuration.
C7_ItemsNormalized ==
    [][Created =>
          /\ Len(navItems') = Len(OrEmpty(NavOf(themeConfig)).list)
          /\ \A i \in 1..Len(navItems') :
                /\ "items" \in DOMAIN ItemAfter(i)
                /\ "items" \notin DOMAIN Configured(i) => ItemAfter(i).items = <<>>
                /\ "items" \in DOMAIN Configured(i) => ItemAfter(i).items = Configured(i).items]_vars

\* right after created(): one item got the empty list, another kept its two children in order
C7_Witness ==
    /\ phase = "created" /\ run = NoRun
    /\ \E i, j \in Items :
          /\ "items" \notin DOMAIN Configured(i) /\ Item(i).items = <<>>
          /\ Item(j).items = <<SubIntro, SubUseCases>>

----------------------------------------------------------------------------
(* C8 *)

\* C8: created() never fails; with an empty nav list, and with no nav entry in
\* the theme configuration, navItems is the empty list.
C8_InitializeNeverFails ==
    [][Created =>
          /\ phase' = "created"
          /\ ("nav" \notin DOMAIN themeConfig \/ themeConfig.nav = <<>>) => navItems' = <<>>]_vars

\* created() has run on a theme configuration without a nav entry
C8_Witness ==
    /\ phase = "created"
    /\ "nav" \notin DOMAIN themeConfig
    /\ navItems = <<>>

----------------------------------------------------------------------------
(* C9 *)

\* C9: under clicks on the rendered view a leaf (link set) keeps open = false
\* and all its other fields, and has no button to toggle it.
C9_LeafUnaffected ==
    /\ [](\A i \in Items : Leaf(i) => Item(i).open = FALSE /\ ~ENABLED Click(i))
    /\ [][\A i \in Items : Leaf(i) => ItemAfter(i) = Item(i)]_vars

\* a leaf next to a group that was clicked open
C9_Witness ==
    \E i, j \in Items :
       /\ Leaf(i) /\ Item(i).open = FALSE
       /\ ~Leaf(j) /\ RunOn(j) /\ Open(j)

----------------------------------------------------------------------------
(* C10 *)

\* C10: the open flag of an item becomes true only in a call of toggleDropdown
\* with that item, and becomes false only in a call with that item or in a
\* call in which another item becomes open.
C10_ItemStateMachine ==
    [][\A i \in Items :
          /\ (~Open(i) /\ OpenAfter(i)) => ToggleItem(i)
          /\ (Open(i) /\ ~OpenAfter(i)) =>
                \/ ToggleItem(i)
                \/ \E j \in Items \ {i} : ToggleItem(j) /\ ~Open(j) /\ OpenAfter(j)]_vars

\* item 2 was opened while item 1 was open, which closed item 1
C10_Witness ==
    /\ Len(navItems) = 2
    /\ RunOn(2) /\ run.n = 1 /\ ~run.allClosed /\ run.pre = <<FALSE>>
    /\ Open(2) /\ ~Open(1)
    /\ Item(1).text # Item(2).text

----------------------------------------------------------------------------
(* C11 *)

\* C11: in every state of a mounted component the button of every group item
\* can be clicked, so no item gets stuck open or closed.
C11_NoTerminalState ==
    phase = "created" => \A i \in Items : ~Leaf(i) => ENABLED Click(i)

\* a group that was opened and closed again can still be clicked
C11_Witness ==
    \E i \in Items : ~Leaf(i) /\ RunOn(i) /\ run.n = 2 /\ ~Open(i) /\ ENABLED Click(i)

----------------------------------------------------------------------------
(* C20 *)

\* C20: for every group item the rendered arrow has the class down iff the
\* item is open, and its child list is rendered iff the item is open.
C20_ArrowAndListFollowOpen ==
    phase = "created" =>
       /\ Len(view) = Len(navItems)
       /\ \A i \in Items :
             ~Leaf(i) =>
                /\ view[i].tag = "dropdown"
                /\ view[i].down = Open(i)
                /\ view[i].ul = Open(i)
                /\ view[i].ul => view[i].li = Item(i).items

\* an open group with two children, rendered with the arrow down and both entries
C20_Witness ==
    \E i \in Items :
       /\ ~Leaf(i) /\ Open(i)
       /\ view[i].tag = "dropdown" /\ view[i].down /\ view[i].ul
       /\ view[i].li = <<SubIntro, SubUseCases>>

----------------------------------------------------------------------------
(* C14 *)

\* C14: when the view is mounted again after an unmount, every item is closed,
\* whatever was open at the unmount.
C14_RemountStartsClosed ==
    [][Created /\ life.mounts >= 2 =>
          /\ Len(navItems') = Len(OrEmpty(NavOf(themeConfig)).list)
          /\ \A i \in 1..Len(navItems') : ItemAfter(i).open = FALSE]_vars

\* the view was unmounted with an item open, mounted again, and shows a closed group
C14_Witness ==
    /\ phase = "created" /\ life.mounts = 2 /\ life.openAtUnmount
    /\ run = NoRun
    /\ \E i \in Items : ~Leaf(i) /\ Item(i).open = FALSE /\ ~view[i].down

----------------------------------------------------------------------------
(* C12 *)

\* the open flags of the two instances
Opens1 == [i \in 1..Len(navItems) |-> Truthy(heap[navItems[i]], "open")]

Opens2 == [i \in 1..Len(second.navItems) |-> Truthy(heap[second.navItems[i]], "open")]

\* C12: with two instances built from the same configuration, a toggle in one
\* leaves every open flag of the other as it was.
C12_InstancesNotShared ==
    [][/\ Clicks => Opens2' = Opens2 /\ second'.navItems = second.navItems
       /\ Clicks2 => Opens1' = Opens1 /\ navItems' = navItems]_vars

\* both instances are created, the same group is open in the first and closed in the second
C12_Witness ==
    /\ phase = "created" /\ second.phase = "created"
    /\ \E i \in Items :
          /\ ~Leaf(i) /\ RunOn(i) /\ Open(i) /\ view[i].down
          /\ ~Opens2[i] /\ ~second.view[i].down

----------------------------------------------------------------------------
(* C13 *)

\* the configured nav items, as the heap holds them
ConfiguredItems ==
    LET nav == OrEmpty(NavOf(themeConfig)).list IN [i \in 1..Len(nav) |-> heap[nav[i]]]

\* C13: created() and the calls of toggleDropdown with items of navItems leave
\* the theme configuration and every configured nav item as they were.
C13_ConfigurationImmutable ==
    [][themeConfig' = themeConfig /\ ConfiguredItems' = ConfiguredItems]_vars

\* a group is open in navItems while the configured item it was copied from has no open flag
C13_Witness ==
    \E i \in Items :
       /\ RunOn(i) /\ Open(i)
       /\ "open" \notin DOMAIN Configured(i)
       /\ "items" \notin DOMAIN Configured(i)
       /\ Configured(i).text = Item(i).text

----------------------------------------------------------------------------
(* C15 *)

KeyTutorials == PathOf(<<"tutorials">>, TRUE)

KeyRoot == PathOf(<<>>, TRUE)

\* C15: for every page path under /tutorials/ the lookup selects the
\* /tutorials/ entry of the configured sidebar mapping, not the catch-all /.
C15_TutorialsEntrySelected ==
    IsPrefix(KeyTutorials, page.path) =>
       /\ page.resolved.found
       /\ page.resolved.base = KeyTutorials
       /\ page.resolved.base # KeyRoot

\* the page /tutorials/getting-started, resolved to /tutorials/ while / matches it too
C15_Witness ==
    /\ page.path = PathOf(<<"tutorials", "getting-started">>, FALSE)
    /\ page.resolved.base = KeyTutorials
    /\ \E i \in Matching(themeConfig.sidebar, page.path) : themeConfig.sidebar[i].base = KeyRoot

----------------------------------------------------------------------------
(* C16 *)

\* C16: for every page path exactly one entry of the configured sidebar
\* mapping is a longest-prefix match.
C16_ExactlyOneMatch ==
    /\ Cardinality(LongestMatching(themeConfig.sidebar, page.path)) = 1
    /\ page.resolved.found

\* a page under /blog/: two entries have a key that is a prefix of it, one is the longest match
C16_Witness ==
    /\ page.path = PathOf(<<"blog", "tutorials">>, TRUE)
    /\ Cardinality(Matching(themeConfig.sidebar, page.path)) = 2
    /\ Cardinality(LongestMatching(themeConfig.sidebar, page.path)) = 1
    /\ page.resolved.base = PathOf(<<"blog">>, TRUE)

----------------------------------------------------------------------------
(* C17 *)

\* a leaf has a link and no children, a group has children and no link
IsLeaf(obj) ==
    /\ TruthyString(obj, "link")
    /\ "items" \in DOMAIN obj => obj.items = <<>>

IsGroup(obj) ==
    /\ ~TruthyString(obj, "link")
    /\ "items" \in DOMAIN obj
    /\ obj.items # <<>>

\* C17: every nav item of config.js, and every item of navItems built from
\* it, is either a leaf or a group, never both and never neither.
C17_LeafOrGroup ==
    /\ \A i \in 1..Len(ConfiguredItems) : IsLeaf(ConfiguredItems[i]) # IsGroup(ConfiguredItems[i])
    /\ \A i \in Items : IsLeaf(Item(i)) # IsGroup(Item(i))

\* the five nav items of config.js, copied into navItems, each a leaf with an empty child list
C17_Witness ==
    /\ phase = "created"
    /\ Len(navItems) = 5
    /\ \A i \in Items : IsLeaf(Item(i)) /\ Item(i).items = <<>> /\ Item(i).link = Configured(i).link

----------------------------------------------------------------------------
(* C18 *)

RECURSIVE PathsOf(_)
\* the paths of a list of children, in order: string children, [path, label]
\* pairs, the path of a section and the paths of its children
PathsOf(children) ==
    IF Len(children) = 0 THEN <<>>
    ELSE LET c == Head(children)
         IN  (IF "path" \in DOMAIN c THEN <<c.path>> ELSE <<>>)
             \o (IF "children" \in DOMAIN c THEN PathsOf(c.children) ELSE <<>>)
             \o PathsOf(Tail(children))

NoDuplicates(seq) == \A i, j \in 1..Len(seq) : i # j => seq[i] # seq[j]

\* C18: in the sidebar tree of each key of the sidebar mapping every path
\* occurs at most once, at whatever depth.
C18_PathsUniquePerKey ==
    \A e \in 1..Len(themeConfig.sidebar) : NoDuplicates(PathsOf(themeConfig.sidebar[e].tree))

\* the tree of / holds three paths, one of them of a nested section, and
\* /blog/ occurs under two keys, once in each
C18_Witness ==
    /\ \E e \in 1..Len(themeConfig.sidebar) :
          /\ themeConfig.sidebar[e].base = KeyRoot
          /\ PathsOf(themeConfig.sidebar[e].tree) =
                <<"/introduction/", "/introduction/use_cases", "/examples", "https://docs.rs/cdk">>
    /\ \E e, f \in 1..Len(themeConfig.sidebar) :
          /\ e # f
          /\ \E i \in 1..Len(PathsOf(themeConfig.sidebar[e].tree)) :
                /\ PathsOf(themeConfig.sidebar[e].tree)[i] = "/blog/"
                /\ PathsOf(themeConfig.sidebar[f].tree) = PathsOf(themeConfig.sidebar[e].tree)

----------------------------------------------------------------------------
(* C19 *)

\* the i-th configured item has no link and no child
EmptyGroup(obj) ==
    /\ ~TruthyString(obj, "link")
    /\ "items" \in DOMAIN obj => obj.items = <<>>

\* C19: a configuration with a group that has no children is rejected when it
\* is loaded, and no dropdown header without child entries is ever rendered.
C19_EmptyGroupRejected ==
    /\ [][Created /\ (\E i \in 1..Len(ConfiguredItems) : EmptyGroup(ConfiguredItems[i]))
             => phase' = "error"]_vars
    /\ [](\A i \in 1..Len(view) : view[i].tag = "dropdown" => Item(i).items # <<>>)

----------------------------------------------------------------------------
(* C21 *)

\* C21: toggleDropdown, which tells the items apart by identity, and the
\* index-based reducer toggle agree: created() leaves every flag closed, as
\* the reducer's initial list is, and every call with the i-th item takes the
\* open flags of navItems to toggle(flags, i), also when two items have the
\* same text and link.
C21_ReducerEquivalent ==
    [][/\ Created /\ phase' = "created" => Opens1' = [i \in 1..Len(navItems') |-> FALSE]
       /\ \A i \in Items : ToggleItem(i) => Opens1' = toggle(Opens1, i)]_vars

\* two items of one text and one link: the second was toggled while the first was open
C21_Witness ==
    /\ Len(navItems) = 2
    /\ Leaf(1) /\ Leaf(2)
    /\ Item(1).text = Item(2).text /\ Item(1).link = Item(2).link
    /\ RunOn(2) /\ run.n = 1 /\ ~run.allClosed
    /\ Opens1 = <<FALSE, TRUE>>

----------------------------------------------------------------------------
(* C22 *)

\* the dropdowns the rendered view shows open
ShownOpen == {i \in 1..Len(view) : view[i].tag = "dropdown" /\ view[i].down}

\* C22: toggleDropdown flips its argument before it closes the others, but
\* whenever no call is running at most one item is open, no render ever shows
\* two open dropdowns, no click handler and no created() starts while a call
\* is running, and the call, once its loop is over, has left the heap that
\* toggleDropdown run in one piece leaves.
C22_IntermediateUnobserved ==
    /\ handler.pc = "idle" => Cardinality({i \in Items : Open(i)}) <= 1
    /\ Cardinality(ShownOpen) <= 1
    /\ handler.pc # "idle" => ~ENABLED BeginToggles /\ ~ENABLED Created
    /\ handler.pc = "loop" /\ handler.k > Len(navItems)
          => heap = toggleDropdown(handler.start, navItems, handler.item)

\* inside the call for the second item, made while the first was open: both
\* are open, and the view still shows the first one alone
C22_Witness ==
    /\ Len(navItems) = 2
    /\ handler.pc = "loop" /\ handler.item = navItems[2] /\ handler.k = 1
    /\ Open(1) /\ Open(2)
    /\ ShownOpen = {1}

----------------------------------------------------------------------------
(* C23 *)

----------------------------------------------------------------------------
(* C24 *)

\* the items rendered with a dropdown header
Groups == {i \in Items : RendersDropdown(Item(i))}

\* the assignments of open flags with every item closed or one group open
OneGroupOrNone ==
    {o \in [Items -> BOOLEAN] :
        /\ \A i \in Items : o[i] => i \in Groups
        /\ Cardinality({i \in Items : o[i]}) <= 1}

\* C24: with n groups there are n + 1 assignments with every item closed or
\* one group open; the open flags of navItems are always one of them, and a
\* single click leads from the present one to any other of them.
C24_ReachableAssignments ==
    phase = "created" =>
       /\ Cardinality(OneGroupOrNone) = Cardinality(Groups) + 1
       /\ Opens1 \in OneGroupOrNone
       /\ \A o \in OneGroupOrNone :
             o # Opens1 => \E i \in Items : ENABLED (Click(i) /\ Opens1' = o)

\* two groups, three assignments: a click took <<TRUE, FALSE>> to <<FALSE, TRUE>>
C24_Witness ==
    /\ Cardinality(Groups) = 2
    /\ Cardinality(OneGroupOrNone) = 3
    /\ RunOn(2) /\ run.n = 1 /\ ~run.allClosed
    /\ Opens1 = <<FALSE, TRUE>>

----------------------------------------------------------------------------
(* C25 *)

\* key a is a prefix of key b and is not b
ProperPrefix(a, b) == IsPrefix(a, b) /\ a # b

\* C25: no key of themeConfig.sidebar is declared after a proper prefix of
\* it, and for every page path the first declared key that is a prefix of the
\* path is the key of the longest-prefix match, the one resolved for the
\* current page included.
C25_FirstMatchIsLongestMatch ==
    /\ \A i, j \in 1..Len(themeConfig.sidebar) :
          i < j => ~ProperPrefix(themeConfig.sidebar[i].base, themeConfig.sidebar[j].base)
    /\ \A p \in PagePaths : ResolveFirst(themeConfig.sidebar, p) = Resolve(themeConfig.sidebar, p)
    /\ page.resolved = ResolveFirst(themeConfig.sidebar, page.path)

\* on /blog/tutorials two keys are prefixes of the path, '/blog/' and '/', and
\* the first declared of them is the longer one
C25_Witness ==
    /\ page.path = PathOf(<<"blog", "tutorials">>, FALSE)
    /\ Cardinality(Matching(themeConfig.sidebar, page.path)) = 2
    /\ ResolveFirst(themeConfig.sidebar, page.path).base = PathOf(<<"blog">>, TRUE)
    /\ page.resolved.base = PathOf(<<"blog">>, TRUE)

----------------------------------------------------------------------------
(* C26 *)

\* C26: with the nav of config.js every configured item has a link, the view
\* holds no dropdown header, no click on a header is enabled, and every item
\* of navItems is closed, in every state of the mounted and remounted view.
C26_ShippedNavNeverToggles ==
    /\ \A i \in 1..Len(ConfiguredItems) : TruthyString(ConfiguredItems[i], "link")
    /\ \A i \in 1..Len(view) : view[i].tag = "NavLink"
    /\ ~ENABLED Clicks
    /\ AllClosed(heap, navItems)

\* the view of the four-item nav, mounted for the second time
C26_Witness ==
    /\ phase = "created"
    /\ life.mounts = 2
    /\ Len(view) = 4
    /\ \A i \in 1..Len(view) : view[i].tag = "NavLink"
    /\ view[1].link = "/introduction/"

----------------------------------------------------------------------------
(* C27 *)

\* the i-th item has a link and a child
LinkAndChildren(i) == Leaf(i) /\ Item(i).items # <<>>

\* C27: an item with a link and a non-empty child list is rendered as a
\* NavLink without a child list, no click on it is enabled, and it is closed.
C27_LinkWithChildrenIsPlainLink ==
    phase = "created" =>
       \A i \in Items :
          LinkAndChildren(i) =>
             /\ view[i].tag = "NavLink"
             /\ "li" \notin DOMAIN view[i]
             /\ ~ENABLED Click(i)
             /\ Item(i).open = FALSE

\* an item with a link and a child, next to a group that was clicked open,
\* closed and open again
C27_Witness ==
    /\ Len(navItems) = 2
    /\ LinkAndChildren(1) /\ Len(Item(1).items) = 1
    /\ view[1].tag = "NavLink"
    /\ RunOn(2) /\ run.n = 3
    /\ Opens1 = <<FALSE, TRUE>>

----------------------------------------------------------------------------
(* C28 *)

\* C28: at no display width are the mobile presenter and the NavLinks of the
\* sidebar both displayed.
C28_NeverBothVisible ==
    phase = "created" /\ Len(view) > 0 =>
       ~(MobileNavLinksDisplay(mobile) = "block" /\ NavLinksDisplay(mobile) = "block")

====
